---- MODULE Spec2Model ----
(***************************************************************************)
(* Model of lircbrary's IRC/DCC core:                                      *)
(*   backend/app/irc_client.py   IrcClient (connect/join, one-shot search, *)
(*                               download, DCC offer parsing, DCC receive) *)
(*   backend/app/irc_session.py  IrcSession (persistent session loop)      *)
(*   backend/app/tasks.py        download_and_process, _safe_extract       *)
(*                                                                         *)
(* Specifications:                                                         *)
(*   Spec         the three IRC modes (one-shot search, download,          *)
(*                persistent session); Init draws the mode and the config  *)
(*   SpecConnect  IrcClient._connect_and_join                              *)
(*   SpecDcc      IrcClient._receive_dcc                                   *)
(*   SpecPipeline tasks.download_and_process                               *)
(***************************************************************************)
EXTENDS Integers, Sequences, FiniteSets, TLC

VARIABLES
    \* ---- configuration snapshot (ConfigData) and run mode
    mode,               \* "search" | "download" | "session" | "connect" | "dcc" | "pipeline"
                        \* | "parse"
    allowed_bots,       \* cfg.allowed_bots, a sequence of names as configured
    max_download_bytes, \* cfg.max_download_bytes: None, 0 or a positive ceiling
    \* ---- one-shot operations (_search_sync, _download_sync)
    pc,                 \* position of the one-shot operation
    server,             \* its connection: "none" | "open" | "closed"
    joined,             \* _join_and_wait: joined event
    done,               \* _download_sync: done
    download_started,   \* _download_sync: download_started
    download_error,     \* _download_sync: download_error ("" is None)
    results,            \* _search_sync: the inline results collected, in order
    parsed_results,     \* _search_sync: number of payload results collected
    ret,                \* what the operation returned or raised (Running until then)
    \* ---- what the handlers did to the outside world
    last,               \* the CTCP event the step just taken handled, and what was done for it
    transfers,          \* _download_sync: number of _receive_dcc calls that connected
                        \* and opened dest for writing
    dest_file,          \* _download_sync: dest is "absent" | "empty" | "data"
    \* ---- IrcSession
    connected,          \* self.connected
    error,              \* self.error ("" is None)
    stop_event,         \* self.stop_event
    client,             \* self.client is not None
    request_q,          \* self.request_q
    reqs,               \* the request dicts created by search(), by request id
    thr,                \* the _run_loop threads started by connect(), by thread id
    \* ---- _connect_and_join
    cj,
    \* ---- _receive_dcc
    dcc,
    \* ---- download_and_process
    job,
    \* ---- a call of one of the parsing functions: its argument and result
    call

vars == << mode, allowed_bots, max_download_bytes, pc, server, joined, done,
           download_started, download_error, results, parsed_results, ret,
           last, transfers, dest_file, connected, error, stop_event, client,
           request_q, reqs, thr, cj, dcc, job, call >>

cfgVars     == << mode, allowed_bots, max_download_bytes >>
opVars      == << pc, server, joined, done, download_started, download_error,
                  results, parsed_results, ret >>
worldVars   == << last, transfers, dest_file >>
sessionVars == << connected, error, stop_event, client, request_q, reqs, thr >>

(***************************************************************************)
(* Bounds                                                                  *)
(***************************************************************************)
Ceiling      == 2   \* the configured size ceiling, when one is configured
MaxTransfers == 2   \* transfers followed per download
MaxLines     == 2   \* result lines followed per search
MaxTotal     == 5   \* KiB followed per transfer from its start, and past the
                    \* limit of the acknowledgement
MaxCalls     == 3   \* IrcSession calls followed: connect() calls that start a
                    \* thread, plus search() calls that queue a request
MaxLineLen   == 4   \* characters of a reply line
MaxQueryLen  == 3   \* characters of a search query

(***************************************************************************)
(* Values                                                                  *)
(***************************************************************************)
\* Python's None, for an offer's size (no sixth token) and for the ceiling
None == -1

\* str.lower() on the names that occur
Lower(s) ==
    CASE s = "Bot"     -> "bot"
      [] s = "BOT"     -> "bot"
      [] s = "#EBOOKS" -> "#ebooks"
      [] OTHER         -> s

Senders == {"Bot", "evil"}

\* Configured allow-lists: empty, or one bot written in capitals
AllowLists == { << >>, << "BOT" >> }

\* cfg.irc_channel or settings.irc_channel
target == "#ebooks"

\* event.target of the join events a server may send
JoinTargets == {"#ebooks", "#EBOOKS", "#other"}

\* A CTCP event as on_ctcp sees it.
\*   send     the payload starts with "DCC SEND"
\*   sender   event.source.split("!")[0]
\*   ntok     number of whitespace-separated tokens of the payload
\*   numeric  the ip, port and size tokens are decimal integers, ip < 2^32
\*   size     the sixth token, None when ntok < 6
\* From the sender on the allow-list: too few tokens; a sizeless offer; an
\* offer whose address is no number; offers of size 0, at the ceiling and
\* above it.  From the other sender, whose offers are turned away before they
\* are parsed when a list is configured: too few tokens; an offer above the
\* ceiling.
CtcpEvents ==
    { [send |-> FALSE, sender |-> "evil", ntok |-> 4, numeric |-> TRUE, size |-> None] }
    \cup [send : {TRUE}, sender : Senders, ntok : {4}, numeric : {TRUE}, size : {None}]
    \cup [send : {TRUE}, sender : {"Bot"}, ntok : {5}, numeric : {TRUE}, size : {None}]
    \cup [send : {TRUE}, sender : {"Bot"}, ntok : {6}, numeric : {FALSE},
          size : {Ceiling + 1}]
    \cup [send : {TRUE}, sender : {"Bot"}, ntok : {6}, numeric : {TRUE},
          size : {0, Ceiling}]
    \cup [send : {TRUE}, sender : Senders, ntok : {6}, numeric : {TRUE},
          size : {Ceiling + 1}]

NoEvent == [send |-> FALSE, sender |-> "", ntok |-> 0, numeric |-> TRUE, size |-> None]

\* allowed_bots as computed at irc_client.py:206/264 and irc_session.py:85:
\* the lower-cased set, or None (here {}) for an empty list
AllowedSet(cfgList) == { Lower(cfgList[i]) : i \in 1..Len(cfgList) }

\* "if allowed_bots and sender.lower() not in allowed_bots"
SenderRejected_CaseSensitive(e) ==
    /\ AllowedSet(allowed_bots) # {}
    /\ e.sender \notin AllowedSet(allowed_bots)

SenderRejected(e) ==
    /\ AllowedSet(allowed_bots) # {}
    /\ Lower(e.sender) \notin AllowedSet(allowed_bots)

\* IrcClient._parse_dcc_send: "ok", or the exception it raises
ParseDccSend_NoCeiling(e) ==
    IF e.ntok < 5 THEN "invalid"
    ELSE IF ~e.numeric THEN "bad_number"
    ELSE "ok"

ParseDccSend(e) ==
    IF e.ntok < 5 THEN "invalid"                 \* IrcDownloadError("Invalid DCC payload")
    ELSE IF ~e.numeric THEN "bad_number"         \* int() / IPv4Address raise ValueError
    ELSE IF max_download_bytes \notin {None, 0}      \* "max_size and"
            /\ e.size \notin {None, 0}               \* "size and"
            /\ e.size > max_download_bytes
         THEN "too_large"                        \* IrcDownloadError("File too large")
    ELSE "ok"

\* How a call of _receive_dcc can end (stepwise model: SpecDcc)
\*   how:  connect_failed  create_connection raised; the file was never opened
\*         io_error        recv/write raised after the file was opened
\*         eof             the loop left on EOF
\*         size_reached    the loop left on remaining <= 0
\*   wrote: at least one chunk was written to the file
DccEndings(size) ==
    { [how |-> "connect_failed", wrote |-> FALSE] }
    \cup [how : {"io_error", "eof"}, wrote : BOOLEAN]
    \cup (IF size # None THEN { [how |-> "size_reached", wrote |-> TRUE] } ELSE {})

DccRaises(d) == d.how \in {"connect_failed", "io_error"}

\* the same, for the callers that do not look at the file afterwards
DccHows(size) == { d.how : d \in DccEndings(size) }

HowRaises(h) == h \in {"connect_failed", "io_error"}

\* dest.open("wb") truncates; it is reached only once the socket is connected
FileAfter(d, before) ==
    IF d.how = "connect_failed" THEN before
    ELSE IF d.wrote THEN "data" ELSE "empty"

Handled(e, outcome, probe, sock, file) ==
    [ev |-> e, outcome |-> outcome, probe |-> probe, sock |-> sock, file |-> file]

NothingHandled == Handled(NoEvent, "", FALSE, FALSE, FALSE)

Running       == [kind |-> "running", what |-> ""]
Raised(what)  == [kind |-> "raised", what |-> what]
Returned(what) == [kind |-> "returned", what |-> what]

(***************************************************************************)
(* _connect_and_join as the three modes see it: it returns a joined        *)
(* connection or raises IrcSearchError (stepwise model: SpecConnect).      *)
(***************************************************************************)
ConnectResults == {"joined", "IrcSearchError"}

(***************************************************************************)
(* Download mode: IrcClient._download_sync                                 *)
(***************************************************************************)
\* on_ctcp of _download_sync (irc_client.py:275-300)
DownloadOnCtcp(e) ==
    IF ~e.send THEN
        /\ last' = Handled(e, "ignored", FALSE, FALSE, FALSE)
        /\ UNCHANGED << done, download_started, download_error, transfers, dest_file >>
    ELSE IF SenderRejected(e) THEN
        /\ download_error' = "not_allowed"
        /\ done' = TRUE
        /\ last' = Handled(e, "not_allowed", FALSE, FALSE, FALSE)
        /\ UNCHANGED << download_started, transfers, dest_file >>
    ELSE IF ParseDccSend(e) # "ok" THEN
        /\ download_error' = ParseDccSend(e)
        /\ done' = TRUE
        /\ last' = Handled(e, ParseDccSend(e), FALSE, FALSE, FALSE)
        /\ UNCHANGED << download_started, transfers, dest_file >>
    ELSE
        /\ transfers < MaxTransfers
        /\ \E d \in DccEndings(e.size) :
            /\ transfers' = IF d.how = "connect_failed" THEN transfers ELSE transfers + 1
            /\ dest_file' = FileAfter(d, dest_file)
            /\ last' = Handled(e, d.how, FALSE, TRUE, d.how # "connect_failed")
            /\ done' = TRUE
            /\ IF DccRaises(d)
               THEN download_error' = d.how /\ UNCHANGED download_started
               ELSE download_started' = TRUE /\ UNCHANGED download_error

\* irc_client.py:261-305: connect, register the handlers, send JOIN
DownloadStart ==
    /\ mode = "download" /\ pc = "start"
    /\ \E r \in ConnectResults :
        IF r = "joined"
        THEN /\ server' = "open"
             /\ pc' = "join_wait"
             /\ UNCHANGED ret
        ELSE /\ ret' = Raised("IrcSearchError")
             /\ pc' = "end"
             /\ UNCHANGED server
    /\ UNCHANGED << joined, done, download_started, download_error, results,
                    parsed_results, cfgVars, call, worldVars, sessionVars, cj, dcc, job >>

\* an event dispatched by reactor.process_once inside _join_and_wait or
\* inside the transfer wait: both handlers are registered from line 302 on
DownloadJoinEvent ==
    /\ mode = "download" /\ pc = "join_wait"
    /\ \E t \in JoinTargets :
        joined' = (joined \/ Lower(t) = Lower(target))
    /\ UNCHANGED << pc, server, done, download_started, download_error, results,
                    parsed_results, ret, cfgVars, call, worldVars, sessionVars, cj, dcc, job >>

DownloadCtcpEvent ==
    /\ mode = "download" /\ pc \in {"join_wait", "dcc_wait"}
    /\ \E e \in CtcpEvents : DownloadOnCtcp(e)
    /\ UNCHANGED << pc, server, joined, results, parsed_results, ret,
                    cfgVars, call, sessionVars, cj, dcc, job >>

\* _join_and_wait's loop ends (irc_client.py:175-179), then line 307-309
DownloadJoinWaitEnd ==
    /\ mode = "download" /\ pc = "join_wait"
    /\ IF joined
       THEN \* privmsg(target, "@download id"); the wait loop is entered unless done
            /\ pc' = IF done THEN "finish" ELSE "dcc_wait"
            /\ UNCHANGED ret
       ELSE \* ten seconds have passed: raise IrcSearchError("Join timeout")
            /\ pc' = "end"
            /\ ret' = Raised("IrcSearchError")
    /\ UNCHANGED << server, joined, done, download_started, download_error, results,
                    parsed_results, cfgVars, call, worldVars, sessionVars, cj, dcc, job >>

\* the transfer wait ends: done is set, or dcc_timeout has passed
DownloadWaitEnd ==
    /\ mode = "download" /\ pc = "dcc_wait"
    /\ pc' = "finish"
    /\ UNCHANGED << server, joined, done, download_started, download_error, results,
                    parsed_results, ret, cfgVars, call, worldVars, sessionVars, cj, dcc, job >>

\* lines 313-320: what _download_sync raises or returns
DownloadResult_IgnoreError(err, started) ==
    IF ~started THEN Raised("no_dcc_send") ELSE Returned("dest")

DownloadResult(err, started) ==
    IF err # "" THEN Raised(err)
    ELSE IF ~started THEN Raised("no_dcc_send")
    ELSE Returned("dest")

\* irc_client.py:311-320
DownloadFinish ==
    /\ mode = "download" /\ pc = "finish"
    /\ server' = "closed"
    /\ pc' = "end"
    /\ ret' = DownloadResult(download_error, download_started)
    /\ UNCHANGED << joined, done, download_started, download_error, results,
                    parsed_results, cfgVars, call, worldVars, sessionVars, cj, dcc, job >>

NextDownload ==
    \/ DownloadStart
    \/ DownloadJoinEvent
    \/ DownloadCtcpEvent
    \/ DownloadJoinWaitEnd
    \/ DownloadWaitEnd
    \/ DownloadFinish

(***************************************************************************)
(* The parsing functions of IrcClient.  A string is a sequence of          *)
(* one-character strings.                                                  *)
(***************************************************************************)
DigitChars == << "0", "1", "2", "3", "4", "5", "6", "7", "8", "9" >>

IsDigit(c) == \E d \in 1..10 : DigitChars[d] = c

DigitVal(c) == (CHOOSE d \in 1..10 : DigitChars[d] = c) - 1

\* str(n) for a small n >= 0
RECURSIVE ToDigits(_)
ToDigits(n) ==
    IF n < 10 THEN << DigitChars[n + 1] >>
    ELSE ToDigits(n \div 10) \o << DigitChars[(n % 10) + 1] >>

\* " ".join(fields)
RECURSIVE Join(_)
Join(fields) ==
    IF fields = << >> THEN << >>
    ELSE IF Len(fields) = 1 THEN fields[1]
    ELSE fields[1] \o << " " >> \o Join(Tail(fields))

\* str.split(): the maximal runs of characters that are no whitespace
RECURSIVE SplitAcc(_, _, _)
SplitAcc(s, cur, acc) ==
    IF s = << >> THEN (IF cur = << >> THEN acc ELSE Append(acc, cur))
    ELSE IF Head(s) = " "
    THEN SplitAcc(Tail(s), << >>, IF cur = << >> THEN acc ELSE Append(acc, cur))
    ELSE SplitAcc(Tail(s), Append(cur, Head(s)), acc)

Split(s) == SplitAcc(s, << >>, << >>)

\* str.strip('"'): the double quotes at both ends are removed
RECURSIVE LStripQuotes(_)
LStripQuotes(t) ==
    IF t # << >> /\ Head(t) = "\"" THEN LStripQuotes(Tail(t)) ELSE t

RECURSIVE RStripQuotes(_)
RStripQuotes(t) ==
    IF t # << >> /\ t[Len(t)] = "\""
    THEN RStripQuotes(SubSeq(t, 1, Len(t) - 1)) ELSE t

StripQuotes(t) == RStripQuotes(LStripQuotes(t))

\* An integer of any size, as Python has them: sign, and magnitude
\* hi * 65536 + lo
Num(neg, hi, lo) == [ok |-> TRUE, neg |-> neg, hi |-> hi, lo |-> lo]

NotANumber == [ok |-> FALSE, neg |-> FALSE, hi |-> 0, lo |-> 0]

RECURSIVE Magnitude(_, _, _)
Magnitude(digits, hi, lo) ==
    IF digits = << >> THEN Num(FALSE, hi, lo)
    ELSE LET low == lo * 10 + DigitVal(Head(digits)) IN
         Magnitude(Tail(digits), hi * 10 + (low \div 65536), low % 65536)

\* int(token): an optional sign and decimal digits, else ValueError
ParseInt(t) ==
    LET signed == t # << >> /\ Head(t) \in {"+", "-"}
        digits == IF signed THEN Tail(t) ELSE t
    IN IF digits = << >> \/ \E i \in 1..Len(digits) : ~IsDigit(digits[i])
       THEN NotANumber
       ELSE [Magnitude(digits, 0, 0) EXCEPT !.neg = signed /\ Head(t) = "-"]

IsZero(n) == n.hi = 0 /\ n.lo = 0

\* n > m for a small m >= 0
Exceeds(n, m) == (~n.neg \/ IsZero(n)) /\ (n.hi > 0 \/ n.lo > m)

\* ipaddress.IPv4Address(n) accepts 0 <= n < 2^32
IsIPv4(n) == (~n.neg \/ IsZero(n)) /\ n.hi < 65536

\* str(IPv4Address(n)): the four octets, most significant first
DottedQuad(n) ==
    ToDigits(n.hi \div 256) \o << "." >> \o ToDigits(n.hi % 256) \o << "." >>
        \o ToDigits(n.lo \div 256) \o << "." >> \o ToDigits(n.lo % 256)

Parsed(filename, host, port, size) ==
    [kind |-> "ok", filename |-> filename, host |-> host, port |-> port,
     size |-> size]

\* IrcClient._parse_dcc_send (irc_client.py:322-335); size is << >> for None
ParseDccSendPayload(payload, max_size) ==
    LET parts == Split(payload) IN
    IF Len(parts) < 5 THEN Raised("Invalid DCC payload")
    ELSE
    LET filename == StripQuotes(parts[3])
        ip_raw   == ParseInt(parts[4])
        port     == ParseInt(parts[5])
        size     == IF Len(parts) > 5 THEN ParseInt(parts[6]) ELSE NotANumber
    IN IF ~ip_raw.ok \/ ~IsIPv4(ip_raw) THEN Raised("ValueError")
       ELSE IF ~port.ok THEN Raised("ValueError")
       ELSE IF Len(parts) > 5 /\ ~size.ok THEN Raised("ValueError")
       ELSE IF /\ max_size \notin {None, 0}
               /\ Len(parts) > 5 /\ ~IsZero(size)
               /\ Exceeds(size, max_size)
            THEN Raised("File too large")
       ELSE Parsed(filename, DottedQuad(ip_raw), port,
                   IF Len(parts) > 5 THEN << size >> ELSE << >>)

\* str.strip(): the whitespace at both ends is removed
RECURSIVE LStrip(_)
LStrip(t) == IF t # << >> /\ Head(t) = " " THEN LStrip(Tail(t)) ELSE t

RECURSIVE RStrip(_)
RStrip(t) ==
    IF t # << >> /\ t[Len(t)] = " " THEN RStrip(SubSeq(t, 1, Len(t) - 1)) ELSE t

Strip(t) == RStrip(LStrip(t))

Least(S) == CHOOSE x \in S : \A y \in S : x <= y

\* the end of the maximal run, starting at position i, of digits / of
\* characters other than "|"
DigitRunEnd(line, i) ==
    CHOOSE e \in i..Len(line) :
        /\ \A k \in i..e : IsDigit(line[k])
        /\ e = Len(line) \/ ~IsDigit(line[e + 1])

TitleRunEnd(line, i) ==
    CHOOSE e \in i..Len(line) :
        /\ \A k \in i..e : line[k] # "|"
        /\ e = Len(line) \/ line[e + 1] = "|"

NoResult == [kind |-> "none", id |-> << >>, title |-> << >>, description |-> << >>]

SearchResult(id, title, description) ==
    [kind |-> "result", id |-> id, title |-> title, description |-> description]

\* IrcClient._parse_search_line (irc_client.py:181-192):
\* re.search(r"(?P<id>\d+).*?(?P<title>[^\|]+)", line).  The search starts at
\* the first digit of the line.  \d+ takes the whole run of digits, .*? as
\* little as lets [^\|]+ take a character; when only "|" follow the run,
\* \d+ gives its last digit back to the title.
ParseSearchLine(line) ==
    LET digits == { i \in 1..Len(line) : IsDigit(line[i]) } IN
    IF digits = {} THEN NoResult
    ELSE
    LET i     == Least(digits)
        e     == DigitRunEnd(line, i)
        after == { q \in (e + 1)..Len(line) : line[q] # "|" }
    IN IF after # {}
       THEN SearchResult(SubSeq(line, i, e),
                         Strip(SubSeq(line, Least(after), TitleRunEnd(line, Least(after)))),
                         Strip(line))
       ELSE IF e > i
       THEN SearchResult(SubSeq(line, i, e - 1), << line[e] >>, Strip(line))
       ELSE NoResult

(***************************************************************************)
(* One-shot search: IrcClient._search_sync                                 *)
(***************************************************************************)
\* number of results _parse_search_results_file can add for one payload
PayloadLines == 0..1

\* the reply lines a bot sends, and the privmsg event that carries one
ReplyLines == { << "1", " ", "a" >>, << "2", " ", "a" >>, << "a" >> }

PrivmsgEvent(line) ==
    [send |-> FALSE, sender |-> "Bot", ntok |-> 0, numeric |-> TRUE, size |-> None,
     line |-> line]

\* "return parsed_results or results" (irc_client.py:254)
SearchReturn_Inline(parsed, inline) == "results"

SearchReturn(parsed, inline) ==
    IF parsed > 0 THEN "parsed_results" ELSE "results"

\* on_ctcp of _search_sync (irc_client.py:217-243): every failure is only logged
SearchOnCtcp(e) ==
    IF ~e.send THEN
        /\ last' = Handled(e, "ignored", FALSE, FALSE, FALSE)
        /\ UNCHANGED << parsed_results, transfers >>
    ELSE IF SenderRejected(e) THEN
        /\ last' = Handled(e, "not_allowed", FALSE, FALSE, FALSE)
        /\ UNCHANGED << parsed_results, transfers >>
    ELSE IF ParseDccSend(e) # "ok" THEN
        /\ last' = Handled(e, ParseDccSend(e), FALSE, FALSE, FALSE)
        /\ UNCHANGED << parsed_results, transfers >>
    ELSE
        /\ UNCHANGED transfers
        /\ \E h \in DccHows(e.size) :
            \* _probe opens (or tries to open) its own connection first
            /\ last' = Handled(e, h, TRUE, TRUE, h # "connect_failed")
            /\ IF HowRaises(h)
               THEN UNCHANGED parsed_results
               ELSE \E n \in PayloadLines :
                        /\ parsed_results + n <= MaxLines
                        /\ parsed_results' = parsed_results + n

\* irc_client.py:199-250: connect, register the handlers, send the command
SearchStart ==
    /\ mode = "search" /\ pc = "start"
    /\ \E r \in ConnectResults :
        IF r = "joined"
        THEN /\ server' = "open"
             /\ pc' = "search_wait"
             /\ UNCHANGED ret
        ELSE /\ ret' = Raised("IrcSearchError")
             /\ pc' = "end"
             /\ UNCHANGED server
    /\ UNCHANGED << joined, done, download_started, download_error, results,
                    parsed_results, cfgVars, call, worldVars, sessionVars, cj, dcc, job >>

\* on_privmsg (irc_client.py:209-215): a reply line that parses is appended
SearchPrivmsgEvent ==
    /\ mode = "search" /\ pc = "search_wait"
    /\ \E line \in ReplyLines :
        LET parsed == ParseSearchLine(line) IN
        IF parsed # NoResult
        THEN /\ Len(results) < MaxLines
             /\ results' = Append(results, parsed)
             /\ last' = Handled(PrivmsgEvent(line), "appended", FALSE, FALSE, FALSE)
        ELSE /\ UNCHANGED results
             /\ last' = Handled(PrivmsgEvent(line), "skipped", FALSE, FALSE, FALSE)
    /\ UNCHANGED << pc, server, joined, done, download_started, download_error,
                    parsed_results, ret, transfers, dest_file, cfgVars, call,
                    sessionVars, cj, dcc, job >>

SearchCtcpEvent ==
    /\ mode = "search" /\ pc = "search_wait"
    /\ \E e \in CtcpEvents : SearchOnCtcp(e)
    /\ UNCHANGED << pc, server, joined, done, download_started, download_error,
                    results, ret, dest_file, cfgVars, call, sessionVars, cj, dcc, job >>

\* irc_client.py:251-254: the window has passed
SearchFinish ==
    /\ mode = "search" /\ pc = "search_wait"
    /\ server' = "closed"
    /\ pc' = "end"
    /\ ret' = Returned(SearchReturn(parsed_results, results))
    /\ UNCHANGED << joined, done, download_started, download_error, results,
                    parsed_results, cfgVars, call, worldVars, sessionVars, cj, dcc, job >>

NextSearch ==
    \/ SearchStart
    \/ SearchPrivmsgEvent
    \/ SearchCtcpEvent
    \/ SearchFinish

(***************************************************************************)
(* Persistent session: IrcSession                                          *)
(***************************************************************************)
ThreadIds == 1..MaxCalls
ReqIds    == 1..(MaxCalls - 1)      \* search() raises before any connect()

\* a request dict (irc_session.py:153) with its caller's position
\*   caller: "none" (search() not called) | "waiting" | "timed_out" | "raised"
\*           | "returned"
\*   error:  "" (None) | "not_allowed" | "dcc_error" (str(e) of whatever
\*           on_ctcp caught) | "Search timeout"
NewReq == [caller |-> "none", done |-> FALSE, error |-> "", started |-> FALSE]

\* a _run_loop thread: its position and its locals
\*   active_req: 0 is None; handlers: the requests whose (privmsg, ctcp)
\*   handlers are registered on this thread's connection
NewThread == [pc |-> "idle", active_req |-> 0, handlers |-> {}, server |-> "none"]

\* IrcSession._teardown_handlers
TeardownHandlers_Noop(registered, r) == registered

TeardownHandlers(registered, r) == registered \ {r}

\* line 48: "if active_req is None" decides whether the queue is read
MayDequeue_Always(t) == TRUE

MayDequeue(t) == thr[t].active_req = 0

\* threads started and requests queued so far
CallsMade ==
    Cardinality({ t \in ThreadIds : thr[t].pc # "idle" })
    + Cardinality({ r \in ReqIds : reqs[r].caller # "none" })

\* IrcSession.connect (irc_session.py:26-35); a call on a connected session
\* only logs
ConnectWithin(budget) ==
    /\ mode = "session"
    /\ CallsMade < budget
    /\ ~connected
    /\ \E t \in ThreadIds :
        /\ thr[t].pc = "idle"
        /\ \A u \in ThreadIds : u < t => thr[u].pc # "idle"
        /\ thr' = [thr EXCEPT ![t].pc = "connect"]
    /\ error' = ""
    /\ stop_event' = FALSE
    /\ client' = TRUE
    /\ UNCHANGED << connected, request_q, reqs, transfers, dest_file, cfgVars, call, opVars, cj, dcc, job >>
    /\ last' = NothingHandled

Connect == ConnectWithin(MaxCalls)

\* IrcSession.disconnect (irc_session.py:162-167)
Disconnect ==
    /\ mode = "session"
    /\ connected' = FALSE
    /\ stop_event' = TRUE
    /\ client' = FALSE
    /\ UNCHANGED << error, request_q, reqs, thr, transfers, dest_file, cfgVars, call, opVars, cj, dcc, job >>
    /\ last' = NothingHandled

\* IrcSession.search up to the wait (irc_session.py:151-155)
SearchSubmitWithin(r, budget) ==
    /\ mode = "session"
    /\ reqs[r].caller = "none"
    /\ \A q \in ReqIds : q < r => reqs[q].caller # "none"
    /\ CallsMade < budget
    /\ connected /\ client      \* otherwise RuntimeError, nothing is queued
    /\ reqs' = [reqs EXCEPT ![r].caller = "waiting"]
    /\ request_q' = Append(request_q, r)
    /\ UNCHANGED << connected, error, stop_event, client, thr,
                    transfers, dest_file, cfgVars, call, opVars, cj, dcc, job >>
    /\ last' = NothingHandled

SearchSubmit(r) == SearchSubmitWithin(r, MaxCalls)

\* done.wait(timeout) returns True (irc_session.py:155-160)
SearchWake(r) ==
    /\ mode = "session"
    /\ reqs[r].caller = "waiting"
    /\ reqs[r].done
    /\ reqs' = [reqs EXCEPT ![r].caller =
                    IF reqs[r].error # "" THEN "raised" ELSE "returned"]
    /\ UNCHANGED << connected, error, stop_event, client, request_q, thr,
                    transfers, dest_file, cfgVars, call, opVars, cj, dcc, job >>
    /\ last' = NothingHandled

\* lines 156-157: the caller that gives up leaves its request where it is
QueueAfterGiveUp_Withdrawn(q, r) == SelectSeq(q, LAMBDA x : x # r)

QueueAfterGiveUp(q, r) == q

\* done.wait(timeout) returns False: RuntimeError("Search timed out")
SearchWaitTimeout(r) ==
    /\ mode = "session"
    /\ reqs[r].caller = "waiting"
    /\ ~reqs[r].done
    /\ reqs' = [reqs EXCEPT ![r].caller = "timed_out"]
    /\ request_q' = QueueAfterGiveUp(request_q, r)
    /\ UNCHANGED << connected, error, stop_event, client, thr,
                    transfers, dest_file, cfgVars, call, opVars, cj, dcc, job >>
    /\ last' = NothingHandled

\* line 41: self.client._connect_and_join()
ThreadConnect(t) ==
    /\ mode = "session"
    /\ thr[t].pc = "connect"
    /\ IF ~client
       THEN \* AttributeError on None
            thr' = [thr EXCEPT ![t].pc = "except"]
       ELSE \E r \in ConnectResults :
            IF r = "joined"
            THEN thr' = [thr EXCEPT ![t].pc = "set_connected", ![t].server = "open"]
            ELSE thr' = [thr EXCEPT ![t].pc = "except"]
    /\ UNCHANGED << connected, error, stop_event, client, request_q, reqs,
                    transfers, dest_file, cfgVars, call, opVars, cj, dcc, job >>
    /\ last' = NothingHandled

\* line 42
ThreadSetConnected(t) ==
    /\ mode = "session"
    /\ thr[t].pc = "set_connected"
    /\ connected' = TRUE
    /\ thr' = [thr EXCEPT ![t].pc = "loop"]
    /\ UNCHANGED << error, stop_event, client, request_q, reqs,
                    transfers, dest_file, cfgVars, call, opVars, cj, dcc, job >>
    /\ last' = NothingHandled

\* lines 46-54: the stop flag, then the queue if no request is active
ThreadLoopTop(t) ==
    /\ mode = "session"
    /\ thr[t].pc = "loop"
    /\ IF stop_event
       THEN /\ thr' = [thr EXCEPT ![t].pc = "finally"]
            /\ UNCHANGED request_q
       ELSE IF MayDequeue(t) /\ request_q # << >>
       THEN /\ thr' = [thr EXCEPT ![t].pc = "start_request",
                                  ![t].active_req = Head(request_q)]
            /\ request_q' = Tail(request_q)
       ELSE /\ thr' = [thr EXCEPT ![t].pc = "pump"]
            /\ UNCHANGED request_q
    /\ UNCHANGED << connected, error, stop_event, client, reqs,
                    transfers, dest_file, cfgVars, call, opVars, cj, dcc, job >>
    /\ last' = NothingHandled

\* _start_search_request (lines 79-141): snapshot the config, stamp the
\* request, register the two handlers, send the search command.  After the
\* handlers are registered it can still raise: self.client has become None,
\* or privmsg raises ServerNotConnectedError on a dropped connection.
ThreadStartRequest(t) ==
    /\ mode = "session"
    /\ thr[t].pc = "start_request"
    /\ IF ~client
       THEN /\ thr' = [thr EXCEPT ![t].pc = "except"]
            /\ UNCHANGED reqs
       ELSE /\ reqs' = [reqs EXCEPT ![thr[t].active_req].started = TRUE]
            /\ \E sent \in BOOLEAN :
                thr' = [thr EXCEPT ![t].pc = IF sent THEN "pump" ELSE "except",
                                   ![t].handlers = @ \cup {thr[t].active_req}]
    /\ UNCHANGED << connected, error, stop_event, client, request_q,
                    transfers, dest_file, cfgVars, call, opVars, cj, dcc, job >>
    /\ last' = NothingHandled

\* on_privmsg of a registered request (lines 89-94), called by process_once
SessionPrivmsgEvent(t) ==
    /\ mode = "session"
    /\ thr[t].pc = "pump"
    /\ thr[t].handlers # {}
    /\ ~client          \* self.client._parse_search_line: AttributeError
    /\ thr' = [thr EXCEPT ![t].pc = "except"]
    /\ UNCHANGED << connected, error, stop_event, client, request_q, reqs,
                    transfers, dest_file, cfgVars, call, opVars, cj, dcc, job >>
    /\ last' = NothingHandled

\* on_ctcp of a registered request r (lines 96-127)
\* lines 121-123: a payload that was received and parsed leaves the request
\* as it is
Completed_Signalled(req) == [req EXCEPT !.done = TRUE]

Completed(req) == req

SessionOnCtcp(r, e) ==
    IF ~e.send THEN
        /\ last' = Handled(e, "ignored", FALSE, FALSE, FALSE)
        /\ UNCHANGED reqs
    ELSE IF SenderRejected(e) THEN
        /\ reqs' = [reqs EXCEPT ![r].error = "not_allowed", ![r].done = TRUE]
        /\ last' = Handled(e, "not_allowed", FALSE, FALSE, FALSE)
    ELSE IF ~client THEN
        \* self.client._parse_dcc_send: AttributeError, caught at line 124
        /\ reqs' = [reqs EXCEPT ![r].error = "dcc_error", ![r].done = TRUE]
        /\ last' = Handled(e, "no_client", FALSE, FALSE, FALSE)
    ELSE IF ParseDccSend(e) # "ok" THEN
        /\ reqs' = [reqs EXCEPT ![r].error = "dcc_error", ![r].done = TRUE]
        /\ last' = Handled(e, ParseDccSend(e), FALSE, FALSE, FALSE)
    ELSE
        \E h \in DccHows(e.size) :
            /\ last' = Handled(e, h, TRUE, TRUE, h # "connect_failed")
            /\ IF HowRaises(h)
               THEN reqs' = [reqs EXCEPT ![r].error = "dcc_error", ![r].done = TRUE]
               ELSE reqs' = [reqs EXCEPT ![r] = Completed(@)]

SessionCtcpEvent(t) ==
    /\ mode = "session"
    /\ thr[t].pc = "pump"
    /\ \E r \in thr[t].handlers : \E e \in CtcpEvents : SessionOnCtcp(r, e)
    /\ UNCHANGED << connected, error, stop_event, client, request_q, thr,
                    transfers, dest_file, cfgVars, call, opVars, cj, dcc, job >>

\* lines 62-63: the active request is marked failed and its signal is set
TimedOut_Unsignalled(req) == [req EXCEPT !.error = "Search timeout"]

TimedOut(req) == [req EXCEPT !.error = "Search timeout", !.done = TRUE]

\* process_once returns (line 56), then lines 58-66: the timeout check;
\* expired is whether search_timeout has passed
ThreadCheckTimeout(t) ==
    /\ mode = "session"
    /\ thr[t].pc = "pump"
    /\ last' = NothingHandled
    /\ LET r == thr[t].active_req IN
       IF r = 0
       THEN /\ thr' = [thr EXCEPT ![t].pc = "loop"]
            /\ UNCHANGED reqs
       ELSE IF ~client
       THEN \* self.client.search_timeout: AttributeError
            /\ thr' = [thr EXCEPT ![t].pc = "except"]
            /\ UNCHANGED reqs
       ELSE \E expired \in BOOLEAN :
            IF expired
            THEN /\ reqs' = [reqs EXCEPT ![r] = TimedOut(@)]
                 /\ thr' = [thr EXCEPT ![t].pc = "loop",
                                       ![t].handlers = TeardownHandlers(@, r),
                                       ![t].active_req = 0]
            ELSE /\ thr' = [thr EXCEPT ![t].pc = "loop"]
                 /\ UNCHANGED reqs
    /\ UNCHANGED << connected, error, stop_event, client, request_q,
                    transfers, dest_file, cfgVars, call, opVars, cj, dcc, job >>

\* lines 67-70
ThreadExcept(t) ==
    /\ mode = "session"
    /\ thr[t].pc = "except"
    /\ error' = "Session error"
    /\ connected' = FALSE
    /\ thr' = [thr EXCEPT ![t].pc = "finally"]
    /\ UNCHANGED << stop_event, client, request_q, reqs,
                    transfers, dest_file, cfgVars, call, opVars, cj, dcc, job >>
    /\ last' = NothingHandled

\* lines 71-77; the thread function returns and its locals are gone
ThreadFinally(t) ==
    /\ mode = "session"
    /\ thr[t].pc = "finally"
    /\ client' = FALSE
    /\ thr' = [thr EXCEPT ![t] = [pc |-> "dead", active_req |-> 0, handlers |-> {},
                                  server |-> IF thr[t].server = "open"
                                             THEN "closed" ELSE thr[t].server]]
    /\ UNCHANGED << connected, error, stop_event, request_q, reqs,
                    transfers, dest_file, cfgVars, call, opVars, cj, dcc, job >>
    /\ last' = NothingHandled

NextSession ==
    \/ Connect
    \/ Disconnect
    \/ \E r \in ReqIds : SearchSubmit(r)
    \/ \E r \in ReqIds : SearchWake(r)
    \/ \E r \in ReqIds : SearchWaitTimeout(r)
    \/ \E t \in ThreadIds : ThreadConnect(t)
    \/ \E t \in ThreadIds : ThreadSetConnected(t)
    \/ \E t \in ThreadIds : ThreadLoopTop(t)
    \/ \E t \in ThreadIds : ThreadStartRequest(t)
    \/ \E t \in ThreadIds : SessionPrivmsgEvent(t)
    \/ \E t \in ThreadIds : SessionCtcpEvent(t)
    \/ \E t \in ThreadIds : ThreadCheckTimeout(t)
    \/ \E t \in ThreadIds : ThreadExcept(t)
    \/ \E t \in ThreadIds : ThreadFinally(t)

(***************************************************************************)
(* The three IRC modes                                                     *)
(***************************************************************************)
IdleOp ==
    /\ pc = "start" /\ server = "none" /\ joined = FALSE /\ done = FALSE
    /\ download_started = FALSE /\ download_error = ""
    /\ results = << >> /\ parsed_results = 0 /\ ret = Running

IdleWorld ==
    /\ last = NothingHandled /\ transfers = 0 /\ dest_file = "absent"

IdleSession ==
    /\ connected = FALSE /\ error = "" /\ stop_event = FALSE /\ client = FALSE
    /\ request_q = << >>
    /\ reqs = [r \in ReqIds |-> NewReq]
    /\ thr = [t \in ThreadIds |-> NewThread]

IdleConnect  == cj = 0
IdleDcc      == dcc = 0
IdlePipeline == job = 0
IdleCall     == call = 0

Init ==
    /\ mode \in {"search", "download", "session"}
    /\ IdleCall
    /\ allowed_bots \in AllowLists
    /\ max_download_bytes \in {None, 0, Ceiling}
    /\ IdleOp /\ IdleWorld /\ IdleSession
    /\ IdleConnect /\ IdleDcc /\ IdlePipeline

Next ==
    \/ NextSearch
    \/ NextDownload
    \/ NextSession

Spec == Init /\ [][Next]_vars

(***************************************************************************)
(* Claims checked under Spec                                               *)
(***************************************************************************)
\* the sender's part of the policy, on the configuration as written
SenderAllowed(e) ==
    \/ allowed_bots = << >>
    \/ \E i \in 1..Len(allowed_bots) : Lower(allowed_bots[i]) = Lower(e.sender)

\* a ceiling is in force when cfg.max_download_bytes is neither None nor 0
CeilingInForce == max_download_bytes \notin {None, 0}

Acceptable(e) ==
    /\ SenderAllowed(e)
    /\ (~CeilingInForce \/ e.size = None \/ e.size <= max_download_bytes)

Oversize(e) ==
    e.send /\ CeilingInForce /\ e.size # None /\ e.size > max_download_bytes

\* the same with every configured number, 0 included, taken as the ceiling
AcceptableAnyCeiling(e) ==
    /\ SenderAllowed(e)
    /\ (max_download_bytes = None \/ e.size = None \/ e.size <= max_download_bytes)

OversizeAnyCeiling(e) ==
    e.send /\ max_download_bytes # None /\ e.size # None /\ e.size > max_download_bytes

NothingOpened == ~last.probe /\ ~last.sock /\ ~last.file

\* C1: on every session loop thread, the request handlers registered on its
\* connection belong to at most one request, and that request is the active one.
C1_OneActiveRequest ==
    mode = "session" =>
        \A t \in ThreadIds :
            /\ Cardinality(thr[t].handlers) <= 1
            /\ thr[t].handlers \subseteq {thr[t].active_req}

\* the second request holds the handlers after the first one timed out
C1_Witness ==
    \E t \in ThreadIds :
        /\ thr[t].handlers = {2}
        /\ reqs[1].error = "Search timeout"

\* C2: when the session loop has ended, the request that was active and the
\* requests still queued have their error recorded and their signal set.
C2_LoopEndSignalsPending ==
    mode = "session" =>
        \A t \in ThreadIds :
            thr[t].pc = "finally" =>
                /\ thr[t].active_req # 0 =>
                       /\ reqs[thr[t].active_req].done
                       /\ reqs[thr[t].active_req].error # ""
                /\ \A i \in 1..Len(request_q) :
                       /\ reqs[request_q[i]].done
                       /\ reqs[request_q[i]].error # ""

C9_AtMostOneTransfer ==
    mode = "download" => transfers <= 1

\* C10: with a non-empty allow-list, the operation that received an offer
\* from a sender outside it fails with the policy error (one-shot search and
\* download: it raises it; session: it is recorded on the request and signalled).
C10_DisallowedSenderFailsOperation ==
    (last.ev.send /\ ~SenderAllowed(last.ev)) =>
        /\ (mode \in {"search", "download"} /\ pc = "end" /\ server = "closed")
               => ret = Raised("not_allowed")
        /\ mode = "session"
               => \E r \in ReqIds : reqs[r].done /\ reqs[r].error = "not_allowed"

(***************************************************************************)
(* IrcClient._connect_and_join (irc_client.py:113-160)                     *)
(***************************************************************************)
\* for attempt in range(3)
MaxAttempts == 3

\* line 117: the nickname, as the suffix appended to base_nick (0: none)
NickFor_Base(attempt) == 0

NickFor(attempt) == IF attempt = 0 THEN 0 ELSE attempt

\* on_join, line 128
JoinMatches_Any(t) == TRUE

JoinMatches(t) == Lower(t) = Lower(target)

\* line 140: "if not welcome.is_set()" after the welcome wait
WelcomeMissing_Never(welcome) == FALSE

WelcomeMissing(welcome) == ~welcome

\* what reactor.process_once can dispatch during registration and join
ConnEvents ==
    {"welcome", "nicknameinuse"} \cup JoinTargets

\* cj: the locals of _connect_and_join and what its connections have seen
\*   pc        "attempt" | "welcome_wait" | "join_wait" | "done"
\*   attempt   the loop variable
\*   welcome, joined   the two asyncio.Event of the current attempt
\*   nicks     the nickname suffixes the connections were opened with
\*   welcomed  the connections (by attempt) a welcome event arrived on
\*   confirmed the connections a join event naming the channel arrived on
\*   join_sent the connections JOIN was sent on
\*   open      the connections not disconnected
\*   timeouts  welcome timeouts so far
\*   last_error, result
InitCj ==
    [pc |-> "attempt", attempt |-> 0, welcome |-> FALSE, joined |-> FALSE,
     nicks |-> << >>, welcomed |-> {}, confirmed |-> {}, join_sent |-> {},
     open |-> {}, timeouts |-> 0, last_error |-> "", result |-> Running]

\* lines 116-134: the next attempt connects under its nickname, or the loop
\* is exhausted and last_error is raised (lines 158-160)
CjAttempt ==
    /\ mode = "connect" /\ cj.pc = "attempt"
    /\ IF cj.attempt < MaxAttempts
       THEN \E connects \in BOOLEAN :
            IF connects
            THEN cj' = [cj EXCEPT !.pc = "welcome_wait",
                                  !.nicks = Append(@, NickFor(cj.attempt)),
                                  !.open = @ \cup {cj.attempt},
                                  !.welcome = FALSE, !.joined = FALSE]
            ELSE \* _connect raises IrcSearchError("IRC connection failed")
                 cj' = [cj EXCEPT !.pc = "done",
                                  !.nicks = Append(@, NickFor(cj.attempt)),
                                  !.result = Raised("IRC connection failed")]
       ELSE cj' = [cj EXCEPT !.pc = "done",
                             !.result = Raised(IF cj.last_error # ""
                                               THEN cj.last_error
                                               ELSE "Failed to connect")]
    /\ UNCHANGED << cfgVars, call, opVars, worldVars, sessionVars, dcc, job >>

\* an event of the current connection reaches on_welcome / on_join
CjEvent ==
    /\ mode = "connect" /\ cj.pc \in {"welcome_wait", "join_wait"}
    /\ \E ev \in ConnEvents :
        IF ev = "welcome"
        THEN cj' = [cj EXCEPT !.welcome = TRUE, !.welcomed = @ \cup {cj.attempt}]
        ELSE IF ev = "nicknameinuse"
        THEN UNCHANGED cj                  \* only logged (line 89)
        ELSE cj' = [cj EXCEPT !.joined = @ \/ JoinMatches(ev),
                              !.confirmed = IF Lower(ev) = Lower(target)
                                            THEN @ \cup {cj.attempt} ELSE @]
    /\ UNCHANGED << cfgVars, call, opVars, worldVars, sessionVars, dcc, job >>

\* lines 138-148: the welcome wait is over (welcome set, or ten seconds passed)
CjWelcomeWaitEnd ==
    /\ mode = "connect" /\ cj.pc = "welcome_wait"
    /\ IF WelcomeMissing(cj.welcome)
       THEN cj' = [cj EXCEPT !.pc = "attempt", !.attempt = @ + 1,
                             !.last_error = "Welcome timeout",
                             !.timeouts = @ + 1,
                             !.open = @ \ {cj.attempt}]
       ELSE cj' = [cj EXCEPT !.pc = "join_wait",
                             !.join_sent = @ \cup {cj.attempt}]
    /\ UNCHANGED << cfgVars, call, opVars, worldVars, sessionVars, dcc, job >>

\* lines 149-157: the join wait is over (joined set, or ten seconds passed)
CjJoinWaitEnd ==
    /\ mode = "connect" /\ cj.pc = "join_wait"
    /\ IF ~cj.joined
       THEN cj' = [cj EXCEPT !.pc = "attempt", !.attempt = @ + 1,
                             !.last_error = "Join timeout",
                             !.open = @ \ {cj.attempt}]
       ELSE cj' = [cj EXCEPT !.pc = "done", !.result = Returned("server")]
    /\ UNCHANGED << cfgVars, call, opVars, worldVars, sessionVars, dcc, job >>

InitConnect ==
    /\ mode = "connect"
    /\ IdleCall
    /\ allowed_bots = << >> /\ max_download_bytes = None
    /\ IdleOp /\ IdleWorld /\ IdleSession /\ IdleDcc /\ IdlePipeline
    /\ cj = InitCj

NextConnect ==
    \/ CjAttempt
    \/ CjEvent
    \/ CjWelcomeWaitEnd
    \/ CjJoinWaitEnd

SpecConnect == InitConnect /\ [][NextConnect]_vars

\* C5: JOIN is sent only on a connection a welcome event arrived on, and the
\* connection is returned only after a join event naming the configured
\* channel (in any case) arrived on it.
C5_JoinAfterWelcome ==
    /\ cj.join_sent \subseteq cj.welcomed
    /\ cj.result.kind = "returned" =>
           /\ cj.attempt \in cj.join_sent
           /\ cj.attempt \in cj.confirmed

\* a connection was returned after both events
C5_Witness ==
    /\ cj.result.kind = "returned"
    /\ cj.attempt \in cj.welcomed \cap cj.confirmed

\* C6: at most 3 attempts, under base, base_1, base_2 in this order; success
\* on the second attempt is under base_1; three welcome timeouts in a row
\* end in the connection error.
C6_ThreeSuffixedAttempts ==
    /\ Len(cj.nicks) <= 3
    /\ \A i \in 1..Len(cj.nicks) : cj.nicks[i] = i - 1
    /\ (cj.result.kind = "returned" /\ cj.attempt = 1) => cj.nicks = << 0, 1 >>
    /\ (cj.timeouts = 3 /\ cj.pc = "done") => cj.result = Raised("Welcome timeout")
    /\ cj.timeouts = 3 => cj.pc \in {"attempt", "done"} /\ cj.open = {}

\* the second attempt, under base_1, succeeded after a welcome timeout
C6_Witness ==
    /\ cj.result.kind = "returned"
    /\ cj.nicks = << 0, 1 >>
    /\ cj.timeouts = 1

\* three welcome timeouts have ended in the error
C6_WitnessExhausted ==
    /\ cj.timeouts = 3
    /\ cj.result = Raised("Welcome timeout")

(***************************************************************************)
(* IrcClient._receive_dcc (irc_client.py:358-387)                          *)
(* Byte counts are in KiB.                                                 *)
(***************************************************************************)
\* sock.recv(4096): a chunk has at most 4 KiB
RecvMax == 4

\* total.to_bytes(4, byteorder="big", signed=False) raises OverflowError
\* from 2^32 bytes on: 2^22 KiB
AckLimit == 4194304

Encodable_Always(total) == TRUE

Encodable(total) == total < AckLimit

\* the value written back (line 375)
AckPayload(total) == total

\* line 380: the declared size has been received
SizeReached_Never(remaining) == FALSE

SizeReached(remaining) == remaining <= 0

\* declared sizes: none, small ones, and one that passes the limit of the
\* acknowledgement
DccSizes == {None} \cup 0..MaxTotal \cup {AckLimit + RecvMax}

\* dcc: the locals of _receive_dcc and what it did
\*   pc        "connect" | "recv" | "done"
\*   size, remaining, total   as in the source (remaining None: -1)
\*   file      "absent" | "open" (dest.open("wb") ran; it holds total KiB)
\*   chunks    whether a chunk has been received
\*   ack       what became of the acknowledgement of the chunk just received:
\*             "none" | "sent" | "send_failed" | "overflow"
\*   last_ack  the last value written back on the socket
\*   eof       the loop was left on EOF
InitDcc(size) ==
    [pc |-> "connect", size |-> size, remaining |-> None, total |-> 0,
     file |-> "absent", chunks |-> FALSE, ack |-> "none", last_ack |-> 0,
     eof |-> FALSE, result |-> Running]

\* line 363: create_connection, then dest.open("wb"); line 365
DccConnect ==
    /\ mode = "dcc" /\ dcc.pc = "connect"
    /\ \E connects \in BOOLEAN :
        IF connects
        THEN dcc' = [dcc EXCEPT !.pc = "recv", !.file = "open",
                                !.remaining = dcc.size]
        ELSE dcc' = [dcc EXCEPT !.pc = "done", !.result = Raised("connect_failed")]
    /\ UNCHANGED << cfgVars, call, opVars, worldVars, sessionVars, cj, job >>

\* one loop iteration with a chunk of n KiB (lines 367-382)
ChunkStep(d, n, sendOk) ==
    LET total == d.total + n
        rem   == IF d.remaining = None THEN None ELSE d.remaining - n
        stop  == rem # None /\ SizeReached(rem)
    IN [d EXCEPT !.total = total,
                 !.remaining = rem,
                 !.chunks = TRUE,
                 !.ack = IF ~Encodable(total) THEN "overflow"
                         ELSE IF sendOk THEN "sent" ELSE "send_failed",
                 !.last_ack = IF Encodable(total) /\ sendOk
                              THEN AckPayload(total) ELSE @,
                 !.pc = IF stop THEN "done" ELSE "recv",
                 !.result = IF stop THEN Returned("size_reached") ELSE @]

DccRecvChunk ==
    /\ mode = "dcc" /\ dcc.pc = "recv"
    /\ \/ dcc.total < MaxTotal
       \/ dcc.total >= AckLimit - RecvMax /\ dcc.total < AckLimit + MaxTotal
    /\ \E n \in 1..RecvMax : \E sendOk \in BOOLEAN :
        dcc' = ChunkStep(dcc, n, sendOk)
    /\ UNCHANGED << cfgVars, call, opVars, worldVars, sessionVars, cj, job >>

\* 2^20 - 1 iterations in a row, each with a full chunk whose acknowledgement
\* is sent: the transfer stands one chunk below the limit of the acknowledgement
DccRecvFullChunks ==
    /\ mode = "dcc" /\ dcc.pc = "recv"
    /\ dcc.total = 0
    /\ dcc.size = None \/ dcc.size > AckLimit
    /\ dcc' = [dcc EXCEPT !.total = AckLimit - RecvMax,
                          !.remaining = IF @ = None THEN None
                                        ELSE @ - (AckLimit - RecvMax),
                          !.chunks = TRUE,
                          !.ack = "sent",
                          !.last_ack = AckPayload(AckLimit - RecvMax)]
    /\ UNCHANGED << cfgVars, call, opVars, worldVars, sessionVars, cj, job >>

\* recv returns b"" (lines 368-370): the loop is left, the call returns
DccRecvEof ==
    /\ mode = "dcc" /\ dcc.pc = "recv"
    /\ dcc' = [dcc EXCEPT !.pc = "done", !.eof = TRUE, !.ack = "none",
                          !.result = Returned("eof")]
    /\ UNCHANGED << cfgVars, call, opVars, worldVars, sessionVars, cj, job >>

\* recv or write raises (lines 383-385): logged and raised again
DccRecvError ==
    /\ mode = "dcc" /\ dcc.pc = "recv"
    /\ dcc' = [dcc EXCEPT !.pc = "done", !.ack = "none",
                          !.result = Raised("io_error")]
    /\ UNCHANGED << cfgVars, call, opVars, worldVars, sessionVars, cj, job >>

InitSpecDcc ==
    /\ mode = "dcc"
    /\ IdleCall
    /\ allowed_bots = << >> /\ max_download_bytes = None
    /\ IdleOp /\ IdleWorld /\ IdleSession /\ IdleConnect /\ IdlePipeline
    /\ \E size \in DccSizes : dcc = InitDcc(size)

NextDcc ==
    \/ DccConnect
    \/ DccRecvChunk
    \/ DccRecvFullChunks
    \/ DccRecvEof
    \/ DccRecvError

SpecDcc == InitSpecDcc /\ [][NextDcc]_vars

\* C7: for a transfer with a declared size, a normal return implies that at
\* least the declared size has been received.
C7_ReturnImpliesDeclaredSize ==
    (dcc.result.kind = "returned" /\ dcc.size # None) => dcc.total >= dcc.size

\* C8: after a received chunk that leaves the cumulative total
\* below 2^32 bytes, the value written back is the cumulative total, unless
\* the send failed; from 2^32 bytes on nothing is written back (the 4-byte
\* encoding raises, which is caught like a failed send); in neither case is
\* the transfer aborted.
C8_AckCumulativeBelowLimit ==
    /\ dcc.ack = "sent" => dcc.last_ack = dcc.total /\ dcc.total < AckLimit
    /\ (dcc.chunks /\ dcc.pc = "recv" /\ dcc.total < AckLimit)
           => dcc.ack \in {"sent", "send_failed"}
    /\ (dcc.chunks /\ dcc.pc = "recv" /\ dcc.total >= AckLimit)
           => dcc.ack = "overflow"
    /\ dcc.ack \in {"send_failed", "overflow"} => dcc.result.kind # "raised"
    /\ dcc.last_ack < AckLimit

\* chunks are still received after the total has passed 2^32 bytes
C8_Witness ==
    /\ dcc.ack = "overflow"
    /\ dcc.total > AckLimit
    /\ dcc.last_ack = AckLimit - 1

\* C8 as stated: after every received chunk, whatever the total, the value
\* written back (when the send does not fail) is the cumulative total.
C8_AckAfterEveryChunk ==
    (dcc.chunks /\ dcc.ack # "none" /\ dcc.ack # "send_failed")
        => dcc.ack = "sent" /\ dcc.last_ack = dcc.total

(***************************************************************************)
(* tasks.download_and_process and tasks._safe_extract                      *)
(***************************************************************************)
\* the members an archive can hold:
\*   "book.pdf", "info.nfo"  regular members
\*   "../up1", "../../up2"   members named with a traversal sequence
\*   "link"                  a symbolic link to a path outside the archive
Members == {"book.pdf", "info.nfo", "../up1", "../../up2", "link"}

Traversing(m) == m \in {"../up1", "../../up2", "link"}

Archives == (SUBSET Members) \ {{}}

\* shutil.unpack_archive, by what unpacks the artifact:
\*   "zip"          zipfile.extractall drops the ".." components of a name
\*                  and writes a link as a regular file
\*   "tar_trusted"  tarfile with the fully_trusted filter writes where the
\*                  name says and creates the link
\*   "tar_data"     tarfile with the data filter raises on the first member
\*                  that would leave the destination
Unpackers == {"zip", "tar_trusted", "tar_data"}

\* where unpacking leaves a member: "inside" job_dir, "outside" it, or
\* inside as a "link_out" that resolves outside
Lands(unpacker, m) ==
    IF ~Traversing(m) \/ unpacker = "zip" THEN "inside"
    ELSE IF m = "link" THEN "link_out"
    ELSE "outside"

UnpackRaises(unpacker, archive) ==
    unpacker = "tar_data" /\ \E m \in archive : Traversing(m)

\* lines 33-35: job_dir.rglob("*") yields what lies under job_dir; a child
\* whose resolved path is not under job_dir raises ValueError
CheckRaises(unpacker, archive) ==
    \E m \in archive :
        /\ Lands(unpacker, m) \in {"inside", "link_out"}    \* rglob yields it
        /\ Lands(unpacker, m) = "link_out"                  \* it resolves outside

\* _safe_extract (tasks.py:25-36) on an archive
SafeExtract(unpacker, archive) ==
    IF UnpackRaises(unpacker, archive) THEN Raised("FilterError")
    ELSE IF CheckRaises(unpacker, archive) THEN Raised("ValueError")
    ELSE Returned("job_dir")

\* job: one call
\*   entry     the function called: "download_and_process" | "_safe_extract"
\*   pc        "download" | "validate" | "classify" | "file" | "extract" | "done"
\*   is_ebook  the request name ends in .epub/.mobi/.azw3/.pdf (lines 73-85)
\*   target_folder   whether the caller gave one; library_dir is where the
\*             book is filed (line 50)
\*   content   what the bot sends: "epub" (zip with the epub mimetype),
\*             "archive", "other" (no archive)
\*   archive, unpacker   the archive and what unpacks it
\*   staged    the downloaded file: "absent" | "empty" | "data"
\*   suffix    suffix of the downloaded file
\*   is_actual_epub
\*   scratch   members lying under temp_dir/<job>
\*   escaped   members written outside temp_dir/<job>
\*   library   the files moved into the library: << directory, suffix >>
Extensions == {".zip", ".epub", ".pdf"}

LibraryDir(target_folder) == IF target_folder THEN "target_folder" ELSE "library_dir"

\* lines 125-129: a content-detected epub gets the .epub suffix
FinalSuffix_Keep(is_actual_epub, suffix) == suffix

FinalSuffix(is_actual_epub, suffix) ==
    IF is_actual_epub /\ suffix # ".epub" THEN ".epub" ELSE suffix

\* lines 99-100: the artifact of a failed download is unlinked
AfterCleanup_Keep(staged) == staged

AfterCleanup(staged) == "absent"

InitJob(entry, extension, content, archive, unpacker, target_folder) ==
    [entry |-> entry, pc |-> IF entry = "_safe_extract" THEN "extract" ELSE "download",
     is_ebook |-> extension # ".zip", content |-> content, archive |-> archive,
     target_folder |-> target_folder, library_dir |-> LibraryDir(target_folder),
     unpacker |-> unpacker,
     staged |-> IF entry = "_safe_extract" THEN "data" ELSE "absent",
     suffix |-> extension,
     is_actual_epub |-> FALSE, scratch |-> {}, escaped |-> {}, library |-> {},
     result |-> Running]

\* line 91: irc.download_pack; what _download_sync leaves at dest
JobDownload ==
    /\ mode = "pipeline" /\ job.pc = "download"
    /\ \E r \in {"raised", "returned"}, f \in {"absent", "empty", "data"} :
        IF r = "raised"
        THEN job' = [job EXCEPT !.pc = "done", !.staged = f,
                                !.result = Raised("IrcDownloadError")]
        ELSE job' = [job EXCEPT !.pc = "validate", !.staged = f]
    /\ UNCHANGED << cfgVars, call, opVars, worldVars, sessionVars, cj, dcc >>

\* lines 96-103
JobValidate ==
    /\ mode = "pipeline" /\ job.pc = "validate"
    /\ IF job.staged # "data"
       THEN job' = [job EXCEPT !.pc = "done", !.staged = AfterCleanup(job.staged),
                               !.result = Raised("Downloaded file is empty or missing")]
       ELSE job' = [job EXCEPT !.pc = "classify"]
    /\ UNCHANGED << cfgVars, call, opVars, worldVars, sessionVars, cj, dcc >>

\* lines 105-122
JobClassify ==
    /\ mode = "pipeline" /\ job.pc = "classify"
    /\ LET epub == job.content = "epub" IN
       job' = [job EXCEPT !.is_actual_epub = epub,
                          !.pc = IF job.is_ebook \/ epub THEN "file" ELSE "extract"]
    /\ UNCHANGED << cfgVars, call, opVars, worldVars, sessionVars, cj, dcc >>

\* lines 122-136: the artifact is the book
JobFileEbook ==
    /\ mode = "pipeline" /\ job.pc = "file"
    /\ LET suffix == FinalSuffix(job.is_actual_epub, job.suffix) IN
       job' = [job EXCEPT !.pc = "done", !.suffix = suffix, !.staged = "absent",
                          !.library = @ \cup { << job.library_dir, suffix >> },
                          !.result = Returned("final_path")]
    /\ UNCHANGED << cfgVars, call, opVars, worldVars, sessionVars, cj, dcc >>

\* line 138 reads archive_path, a local that is assigned on line 139 only:
\* UnboundLocalError.  Lines 139-161 are never reached.
JobExtract ==
    /\ mode = "pipeline" /\ job.pc = "extract"
    /\ job.entry = "download_and_process"
    /\ job' = [job EXCEPT !.pc = "done", !.result = Raised("UnboundLocalError")]
    /\ UNCHANGED << cfgVars, call, opVars, worldVars, sessionVars, cj, dcc >>

\* _safe_extract called on an archive (tasks.py:25-36): unpack, then check
JobSafeExtract ==
    /\ mode = "pipeline" /\ job.pc = "extract"
    /\ job.entry = "_safe_extract"
    /\ LET unpacked == ~UnpackRaises(job.unpacker, job.archive) IN
       job' = [job EXCEPT
                 !.pc = "done",
                 !.scratch = IF unpacked
                             THEN { m \in job.archive :
                                      Lands(job.unpacker, m) # "outside" }
                             ELSE { m \in job.archive : ~Traversing(m) },
                 !.escaped = IF unpacked
                             THEN { m \in job.archive :
                                      Lands(job.unpacker, m) = "outside" }
                             ELSE {},
                 !.result = SafeExtract(job.unpacker, job.archive)]
    /\ UNCHANGED << cfgVars, call, opVars, worldVars, sessionVars, cj, dcc >>

InitPipeline ==
    /\ mode = "pipeline"
    /\ IdleCall
    /\ allowed_bots = << >> /\ max_download_bytes = None
    /\ IdleOp /\ IdleWorld /\ IdleSession /\ IdleConnect /\ IdleDcc
    /\ \E entry \in {"download_and_process", "_safe_extract"},
          extension \in Extensions, content \in {"epub", "archive", "other"},
          archive \in Archives, unpacker \in Unpackers, target_folder \in BOOLEAN :
        /\ entry = "_safe_extract" =>
               extension = ".zip" /\ content = "archive" /\ ~target_folder
        /\ content # "archive" => archive = {"book.pdf"} /\ unpacker = "zip"
        /\ job = InitJob(entry, extension, content, archive, unpacker, target_folder)

NextPipeline ==
    \/ JobDownload
    \/ JobValidate
    \/ JobClassify
    \/ JobFileEbook
    \/ JobExtract
    \/ JobSafeExtract

SpecPipeline == InitPipeline /\ [][NextPipeline]_vars

\* C4: an archive with a member that resolves outside the job's directory
\* ends in the extraction error, with nothing outside the directory written
\* and nothing moved into the library.
C4_TraversalRejected ==
    (/\ job.pc = "done"
     /\ job.content = "archive" /\ ~job.is_ebook /\ job.staged = "data"
     /\ \E m \in job.archive : Lands(job.unpacker, m) # "inside")
        => /\ job.result \in {Raised("ValueError"), Raised("FilterError")}
           /\ job.escaped = {}
           /\ job.library = {}

(***************************************************************************)
(* Claims on the session's threads and requests, checked under Spec        *)
(***************************************************************************)
\* a _run_loop thread that was started and has not left its finally block
Alive(t) == thr[t].pc \notin {"idle", "dead"}

\* C11: at most one _run_loop thread is alive at any time.
C11_OneLoopThread ==
    mode = "session" => Cardinality({ t \in ThreadIds : Alive(t) }) <= 1

\* C12: connected is True only while a loop thread is alive; in particular it
\* is False once disconnect() was called and the thread has exited.
C12_ConnectedImpliesLoopAlive ==
    (mode = "session" /\ connected) => \E t \in ThreadIds : Alive(t)

\* C13: once a request's signal is set the session leaves the request as it
\* is: its error is not written again.
C13_ReadOnlyAfterDone ==
    [][\A r \in ReqIds :
          (mode = "session" /\ reqs[r].done) => reqs'[r].error = reqs[r].error]_vars

\* C14: a request that has timed out is marked failed, its signal is set, and
\* it is neither active nor the owner of a registered handler on any
\* connection, so that no event processed afterwards reaches it.
C14_TimeoutTearsDown ==
    \A r \in ReqIds :
        reqs[r].error = "Search timeout" =>
            /\ reqs[r].done
            /\ \A t \in ThreadIds :
                   r \notin thr[t].handlers /\ thr[t].active_req # r

\* after the first request timed out, an offer is handled for the second
C14_Witness ==
    \E t \in ThreadIds :
        /\ reqs[1].error = "Search timeout"
        /\ thr[t].active_req = 2 /\ thr[t].handlers = {2}
        /\ last.ev.send

(***************************************************************************)
(* The session alone, followed one call further and under fair scheduling  *)
(* of its loop threads                                                     *)
(***************************************************************************)
\* two connect() calls that start a thread and two search() calls fit
MoreCalls == MaxCalls + 1

ConnectMore == ConnectWithin(MoreCalls)

SearchSubmitMore(r) == SearchSubmitWithin(r, MoreCalls)

\* the steps of _run_loop thread t itself; the events process_once
\* dispatches come from the server
ThreadStep(t) ==
    \/ ThreadConnect(t)
    \/ ThreadSetConnected(t)
    \/ ThreadLoopTop(t)
    \/ ThreadStartRequest(t)
    \/ ThreadCheckTimeout(t)
    \/ ThreadExcept(t)
    \/ ThreadFinally(t)

InitSession ==
    /\ mode = "session"
    /\ IdleCall
    /\ allowed_bots = << >> /\ max_download_bytes = None
    /\ IdleOp /\ IdleWorld /\ IdleSession
    /\ IdleConnect /\ IdleDcc /\ IdlePipeline

NextSessionMore ==
    \/ ConnectMore
    \/ Disconnect
    \/ \E r \in ReqIds : SearchSubmitMore(r)
    \/ \E r \in ReqIds : SearchWake(r)
    \/ \E r \in ReqIds : SearchWaitTimeout(r)
    \/ \E t \in ThreadIds : ThreadConnect(t)
    \/ \E t \in ThreadIds : ThreadSetConnected(t)
    \/ \E t \in ThreadIds : ThreadLoopTop(t)
    \/ \E t \in ThreadIds : ThreadStartRequest(t)
    \/ \E t \in ThreadIds : SessionPrivmsgEvent(t)
    \/ \E t \in ThreadIds : SessionCtcpEvent(t)
    \/ \E t \in ThreadIds : ThreadCheckTimeout(t)
    \/ \E t \in ThreadIds : ThreadExcept(t)
    \/ \E t \in ThreadIds : ThreadFinally(t)

SpecSession ==
    /\ InitSession
    /\ [][NextSessionMore]_vars
    /\ \A t \in ThreadIds : WF_vars(ThreadStep(t))

\* the search command of request r has been sent and r is still active
CommandOut(r) ==
    \E t \in ThreadIds : thr[t].active_req = r /\ thr[t].pc = "pump"

\* C15: requests are activated in the order they were queued (request ids are
\* given in that order): while the command of a later request is out, every
\* earlier request has been taken from the queue and is active nowhere.
C15_FifoActivation ==
    \A r1, r2 \in ReqIds :
        (r1 < r2 /\ CommandOut(r2)) =>
            /\ \A i \in 1..Len(request_q) : request_q[i] # r1
            /\ \A t \in ThreadIds : thr[t].active_req # r1

\* C16: a loop thread that is running when the stop flag is set eventually
\* leaves its loop and ends, its connection closed.
C16_StopEventuallyObserved ==
    \A t \in ThreadIds :
        (stop_event /\ thr[t].pc \in {"loop", "start_request", "pump"})
            ~> (thr[t].pc = "dead")

(***************************************************************************)
(* Claims on joining and on download mode                                  *)
(***************************************************************************)
\* C17: a join timeout is not retried: after it no further connection is
\* opened and no connection is returned.
C17_JoinTimeoutNotRetried ==
    cj.last_error = "Join timeout" =>
        /\ cj.open = {}
        /\ cj.result.kind # "returned"

\* C18: a download call that raises has disconnected its connection.
C18_ErrorLeavesNoConnection ==
    (mode = "download" /\ ret.kind = "raised") => server # "open"

\* line 307 was reached: _join_and_wait returned, which it does once its
\* joined event is set
DownloadCommandSent ==
    \/ pc \in {"dcc_wait", "finish"}
    \/ pc = "end" /\ joined

\* C19: once _connect_and_join has returned the joined connection, a download
\* call does not end before it has sent the download command.
C19_CommandSentOnceJoined ==
    (mode = "download" /\ pc = "end" /\ server # "none") => DownloadCommandSent

\* C20: a download call that has sent its command ends disconnected; with no
\* offer received it raises the 'no transfer' error; it returns dest only
\* with a transfer started and no error recorded.  (An offer leaves an error
\* recorded or a transfer started.)
C20_NoOfferIsAnError ==
    mode = "download" =>
        /\ last.ev.send => (download_error # "" \/ download_started)
        /\ (pc = "end" /\ DownloadCommandSent) =>
               /\ server = "closed"
               /\ (download_error = "" /\ ~download_started)
                      => ret = Raised("no_dcc_send")
               /\ ret.kind = "returned"
                      => download_started /\ download_error = ""
        /\ ret.kind = "returned" => (pc = "end" /\ DownloadCommandSent)

\* the transfer wait ended without an offer
C20_Witness ==
    /\ mode = "download" /\ pc = "end"
    /\ ~last.ev.send
    /\ ret = Raised("no_dcc_send") /\ server = "closed"

\* dest was returned after a transfer
C20_WitnessReturned ==
    /\ mode = "download" /\ ret = Returned("dest")
    /\ transfers = 1 /\ dest_file = "data"

(***************************************************************************)
(* Further claims on _receive_dcc, checked under SpecDcc                   *)
(***************************************************************************)
\* C21: once _receive_dcc has been called and has ended, with or without an
\* error, the destination file exists.
C21_DestExistsAfterCall ==
    dcc.pc = "done" => dcc.file # "absent"

SpecRequests == InitSession /\ [][NextSession]_vars

\* C30: the caller that gives up leaves its request in the queue; a request
\* leaves the queue only by being activated by a session loop, and a loop
\* that is free to take a request takes the head of the queue whether or
\* not its caller has given up.
C30_GivenUpRequestStaysQueued ==
    [][ mode = "session" =>
          /\ reqs' # reqs =>
                \A r \in ReqIds :
                    (reqs[r].caller = "waiting" /\ reqs'[r].caller = "timed_out")
                        => (request_q' = request_q /\ thr' = thr)
          /\ (request_q' # request_q /\ Len(request_q') <= Len(request_q)) =>
                /\ request_q' = Tail(request_q)
                /\ \E t \in ThreadIds :
                      /\ thr[t].pc = "loop"
                      /\ thr'[t].pc = "start_request"
                      /\ thr'[t].active_req = Head(request_q)
          /\ (thr' # thr /\ ~stop_event /\ request_q # << >>) =>
                \A t \in ThreadIds :
                    (/\ thr[t].pc = "loop" /\ thr'[t] # thr[t]
                     /\ thr[t].active_req = 0)
                        => /\ thr'[t].active_req = Head(request_q)
                           /\ request_q' = Tail(request_q)
      ]_vars

\* the caller gave up, the session was disconnected and connected again,
\* and the second loop has sent the command of the request
C30_Witness ==
    /\ mode = "session"
    /\ reqs[1].caller = "timed_out"
    /\ thr[1].pc = "dead"
    /\ thr[2].active_req = 1 /\ thr[2].pc = "pump"

(***************************************************************************)
(* Further claims on download_and_process, checked under SpecPipeline     *)
(***************************************************************************)
\* the download came back with a non-empty file that was not classified as
\* the book itself
ReachedExtraction ==
    /\ job.entry = "download_and_process" /\ job.pc = "done"
    /\ ~job.is_ebook /\ ~job.is_actual_epub
    /\ job.result \notin {Raised("IrcDownloadError"),
                          Raised("Downloaded file is empty or missing")}

\* C25: a generic archive holding one .pdf among other files ends with the
\* .pdf filed in the library and its final path returned.
C25_ArchiveBookFiled ==
    (/\ ReachedExtraction
     /\ job.content = "archive" /\ job.archive = {"book.pdf", "info.nfo"})
        => /\ job.result = Returned("final_path")
           /\ job.library = { << job.library_dir, ".pdf" >> }

\* C26: an artifact that is no archive is moved into the library as it is
\* and its final path is returned.
C26_NonArchiveMovedToLibrary ==
    (ReachedExtraction /\ job.content = "other")
        => /\ job.result = Returned("final_path")
           /\ job.library = { << job.library_dir, job.suffix >> }
           /\ job.staged = "absent"

\* C27: an artifact classified as the book itself, by the request name or
\* by its epub content, is filed in the library directory, or in the
\* target folder when one was given, and its path returned; nothing is
\* extracted, the download directory no longer holds it, and a
\* content-detected epub is filed with the .epub suffix.
C27_DirectEbookFiledAsIs ==
    [][ (job.pc = "file" /\ job'.pc # "file") =>
            /\ job.is_ebook \/ job.content = "epub"
            /\ job'.pc = "done"
            /\ job'.result = Returned("final_path")
            /\ job'.library =
                  { << IF job.target_folder THEN "target_folder" ELSE "library_dir",
                       IF job.content = "epub" THEN ".epub" ELSE job.suffix >> }
            /\ job'.scratch = {} /\ job'.escaped = {}
            /\ job'.staged = "absent"
      ]_vars

\* a .zip-named artifact with epub content was filed as .epub in the target
\* folder
C27_Witness ==
    /\ job.entry = "download_and_process" /\ job.pc = "done"
    /\ ~job.is_ebook /\ job.is_actual_epub /\ job.target_folder
    /\ job.library = { << "target_folder", ".epub" >> }
    /\ job.result = Returned("final_path")

\* C28: when the transfer returned and the downloaded file is missing or
\* empty, the artifact is deleted and the call fails with the download
\* error; nothing is filed in the library and nothing is extracted.
C28_EmptyDownloadFails ==
    [][ (job.pc = "validate" /\ job.staged # "data" /\ job'.pc # "validate") =>
            /\ job'.pc = "done"
            /\ job'.result = Raised("Downloaded file is empty or missing")
            /\ job'.staged = "absent"
            /\ job'.library = {} /\ job'.scratch = {} /\ job'.escaped = {}
      ]_vars

\* the failure of the validation, reached
C28_Witness ==
    /\ job.entry = "download_and_process" /\ job.pc = "done"
    /\ job.result = Raised("Downloaded file is empty or missing")
    /\ job.staged = "absent" /\ job.library = {}

(***************************************************************************)
(* Further claims on _search_sync, checked on the one-shot search alone     *)
(***************************************************************************)
InitSearch == Init /\ mode = "search"

SpecSearch == InitSearch /\ [][NextSearch]_vars

\* C24: when its window has passed the one-shot search disconnects and
\* returns the payload-derived list if that list is non-empty and the
\* inline list otherwise, both lists as they were; and every reply line
\* that parses is appended to the inline list as it arrives, whether or not
\* the list already holds it.
C24_PayloadResultsTakePrecedence ==
    [][ /\ (mode = "search" /\ pc = "search_wait" /\ pc' = "end") =>
               /\ server' = "closed"
               /\ parsed_results > 0 => ret' = Returned("parsed_results")
               /\ parsed_results = 0 => ret' = Returned("results")
               /\ results' = results /\ parsed_results' = parsed_results
        /\ (mode = "search" /\ last' # last /\ last'.outcome = "appended") =>
               /\ Len(results') = Len(results) + 1
               /\ SubSeq(results', 1, Len(results)) = results
               /\ results'[Len(results')].description = last'.ev.line
        /\ (mode = "search" /\ last' # last /\ last'.outcome = "skipped") =>
               results' = results
        /\ (mode = "search" /\ pc = "end") => UNCHANGED << results, parsed_results, ret >>
      ]_vars

\* a payload was parsed, the same reply line came twice, and the payload
\* list was returned
C24_Witness ==
    /\ mode = "search" /\ pc = "end" /\ server = "closed"
    /\ parsed_results > 0 /\ Len(results) = 2 /\ results[1] = results[2]
    /\ ret = Returned("parsed_results")

\* reply lines only: the inline list is returned, in the order of arrival
C24_WitnessInline ==
    /\ mode = "search" /\ pc = "end" /\ transfers = 0
    /\ Len(results) = 2 /\ results[1].id = << "2" >> /\ results[2].id = << "1" >>
    /\ ret = Returned("results")

(***************************************************************************)
(* IrcClient.sanitize_query (irc_client.py:46-55)                          *)
(***************************************************************************)
Letters ==
    { "a", "b", "c", "d", "e", "f", "g", "h", "i", "j", "k", "l", "m",
      "n", "o", "p", "q", "r", "s", "t", "u", "v", "w", "x", "y", "z",
      "A", "B", "C", "D", "E", "F", "G", "H", "I", "J", "K", "L", "M",
      "N", "O", "P", "Q", "R", "S", "T", "U", "V", "W", "X", "Y", "Z" }

IsAlnum(c) == c \in Letters \/ IsDigit(c)

\* line 49, re.sub(r"\.[a-zA-Z0-9]{1,5}$", "", q): a final "." with one to
\* five letters or digits after it is dropped
DropExtension(q) ==
    LET dots == { i \in 1..Len(q) :
                    /\ q[i] = "."
                    /\ Len(q) - i \in 1..5
                    /\ \A k \in (i + 1)..Len(q) : IsAlnum(q[k]) }
    IN IF dots = {} THEN q ELSE SubSeq(q, 1, Least(dots) - 1)

\* line 51, re.sub(r"[^\\w\\s'\\-]", " ", q): in the raw string the class
\* is made of the backslash, "w", "s", "'" and "-"; every other character
\* becomes a space
KeptBySub == { "\\", "w", "s", "'", "-" }

ReplaceSyntax(q) == [i \in 1..Len(q) |-> IF q[i] \in KeptBySub THEN q[i] ELSE " "]

\* lines 52-53
AppendAuthor(q, author) ==
    IF author # << >> THEN Strip(q \o << " " >> \o author) ELSE q

\* line 54, re.sub(r"\\s+", " ", q): in the raw string the pattern is a
\* backslash followed by one or more "s"
RECURSIVE DropS(_)
DropS(q) == IF q # << >> /\ Head(q) = "s" THEN DropS(Tail(q)) ELSE q

RECURSIVE CollapseBackslashS(_)
CollapseBackslashS(q) ==
    IF q = << >> THEN << >>
    ELSE IF Head(q) = "\\" /\ Len(q) > 1 /\ q[2] = "s"
    THEN << " " >> \o CollapseBackslashS(DropS(Tail(q)))
    ELSE << Head(q) >> \o CollapseBackslashS(Tail(q))

Sanitized(text) == [kind |-> "sanitized", text |-> text]

SanitizeQuery(query, author) ==
    LET stripped  == Strip(query)
        named     == DropExtension(stripped)
        replaced  == ReplaceSyntax(named)
        authored  == AppendAuthor(replaced, author)
    IN Sanitized(Strip(CollapseBackslashS(authored)))

(***************************************************************************)
(* Calls of the parsing functions                                          *)
(***************************************************************************)
\* the fields offers are made of, and the offers
FilenameFields == { << "a" >>, << "\"", "a", "\"" >>, << "\"", "a", " ", "b", "\"" >> }

Ip_0          == << "0" >>
Ip_192168_0_1 == << "3", "2", "3", "2", "2", "3", "5", "5", "2", "1" >>
Ip_Last       == << "4", "2", "9", "4", "9", "6", "7", "2", "9", "5" >>
Ip_TooBig     == << "4", "2", "9", "4", "9", "6", "7", "2", "9", "6" >>

IpFields == { Ip_0, Ip_192168_0_1, Ip_Last, Ip_TooBig, << "x" >>, << "-", "1" >> }

PortFields == { << "8", "0" >>, << "p" >> }

SizeFields == { ToDigits(0), ToDigits(Ceiling), ToDigits(Ceiling + 1), << "z" >> }

DccSend == << << "D", "C", "C" >>, << "S", "E", "N", "D" >> >>

Payloads ==
    { Join(DccSend \o << f, i, p >>) :
          f \in FilenameFields, i \in IpFields, p \in PortFields }
    \cup { Join(DccSend \o << f, i, p, z >>) :
          f \in FilenameFields, i \in IpFields, p \in PortFields, z \in SizeFields }
    \cup { Join(DccSend), Join(DccSend \o << << "a" >> >>),
           Join(DccSend \o << << "a" >>, Ip_0 >>) }

\* reply lines: every short line over a small alphabet, and two long ones
LineChars == { "1", "2", "a", " ", "|" }

Line_Example == << "1", "2", "3", "4", "5", " ", "S", "o", "m", "e", " ", "T", "i", "t", "l", "e", " ", "|", " ", "e", "x", "t", "r", "a" >>

Line_NoId == << "n", "o", " ", "i", "d", " ", "h", "e", "r", "e" >>

Lines ==
    UNION { [1..n -> LineChars] : n \in 0..MaxLineLen }
    \cup { Line_Example, Line_NoId }

\* queries: every short one over a small alphabet, and a file name
QueryChars == { "a", "w", "s", " ", ".", "\\", "-" }

Query_Example == << "h", "e", "l", "l", "o", " ", "w", "o", "r", "l", "d", ".", "e", "p", "u", "b" >>

Queries ==
    UNION { [1..n -> QueryChars] : n \in 0..MaxQueryLen } \cup { Query_Example }

\* the author: None, or a name
Authors == { << >>, << "b", " ", " ", "c" >> }

\* call: fn the function called, arg its argument, result what it returned
\* or raised (Running before the call)
InitParse ==
    /\ mode = "parse"
    /\ allowed_bots = << >>
    /\ max_download_bytes \in {None, 0, Ceiling}
    /\ IdleOp /\ IdleWorld /\ IdleSession
    /\ IdleConnect /\ IdleDcc /\ IdlePipeline
    /\ \/ \E payload \in Payloads :
              call = [fn |-> "_parse_dcc_send", arg |-> payload, result |-> Running]
       \/ \E line \in Lines :
              call = [fn |-> "_parse_search_line", arg |-> line, result |-> Running]
       \/ \E query \in Queries, author \in Authors :
              call = [fn |-> "sanitize_query",
                      arg |-> [query |-> query, author |-> author],
                      result |-> Running]

CallParseDccSend ==
    /\ mode = "parse"
    /\ call.fn = "_parse_dcc_send" /\ call.result = Running
    /\ call' = [call EXCEPT !.result = ParseDccSendPayload(call.arg, max_download_bytes)]
    /\ UNCHANGED << cfgVars, opVars, worldVars, sessionVars, cj, dcc, job >>

CallParseSearchLine ==
    /\ mode = "parse"
    /\ call.fn = "_parse_search_line" /\ call.result = Running
    /\ call' = [call EXCEPT !.result = ParseSearchLine(call.arg)]
    /\ UNCHANGED << cfgVars, opVars, worldVars, sessionVars, cj, dcc, job >>

CallSanitizeQuery ==
    /\ mode = "parse"
    /\ call.fn = "sanitize_query" /\ call.result = Running
    /\ call' = [call EXCEPT !.result = SanitizeQuery(call.arg.query, call.arg.author)]
    /\ UNCHANGED << cfgVars, opVars, worldVars, sessionVars, cj, dcc, job >>

NextParse ==
    \/ CallParseDccSend
    \/ CallParseSearchLine
    \/ CallSanitizeQuery

SpecParse == InitParse /\ [][NextParse]_vars

\* what a call has come to
CallDone(fn) == call.fn = fn /\ call.result # Running

HostOf(ip) ==
    CASE ip = Ip_0          -> << "0", ".", "0", ".", "0", ".", "0" >>
      [] ip = Ip_192168_0_1 -> << "1", "9", "2", ".", "1", "6", "8", ".", "0", ".", "1" >>
      [] OTHER              -> << >>

\* C22: an offer of at least five tokens decodes to a filename without its
\* double quotes, the dotted quad of its fourth token (0 is 0.0.0.0,
\* 3232235521 is 192.168.0.1) and a numeric port; an offer of fewer tokens
\* fails with the protocol error.
C22_DecodesEveryOffer ==
    CallDone("_parse_dcc_send") =>
        LET parts == Split(call.arg) IN
        IF Len(parts) < 5 THEN call.result = Raised("Invalid DCC payload")
        ELSE /\ call.result.kind = "ok"
             /\ \A i \in 1..Len(call.result.filename) : call.result.filename[i] # "\""
             /\ call.result.port.ok
             /\ parts[4] \in {Ip_0, Ip_192168_0_1} => call.result.host = HostOf(parts[4])

\* the line as the heuristic is described: the leading digits, then the text
\* up to the first "|"
LeadingDigits(line) ==
    IF line = << >> \/ ~IsDigit(line[1]) THEN 0
    ELSE Least({ e \in 1..Len(line) : e = Len(line) \/ ~IsDigit(line[e + 1]) })

UpToPipe(line, from) ==
    LET stops == { k \in from..Len(line) : line[k] = "|" }
        stop   == IF stops = {} THEN Len(line) ELSE Least(stops) - 1
    IN SubSeq(line, from, stop)

\* C23: the leading run of digits is the id, the text after it up to the
\* first "|" the title, the whole line the description; a line that does
\* not start with a digit gives no result.
C23_LeadingDigitsAndTitle ==
    CallDone("_parse_search_line") =>
        LET d == LeadingDigits(call.arg) IN
        IF d = 0 THEN call.result = NoResult
        ELSE call.result = SearchResult(SubSeq(call.arg, 1, d),
                                        UpToPipe(call.arg, d + 1), call.arg)

\* the query as sanitizing is described: punctuation is what is neither a
\* letter, a digit, an underscore, whitespace, an apostrophe nor a hyphen
IsPunctuation(c) == ~IsAlnum(c) /\ c \notin { "_", " ", "'", "-" }

RECURSIVE CollapseSpaces(_)
CollapseSpaces(q) ==
    IF Len(q) < 2 THEN q
    ELSE IF q[1] = " " /\ q[2] = " " THEN CollapseSpaces(Tail(q))
    ELSE << Head(q) >> \o CollapseSpaces(Tail(q))

DescribedQuery(query, author) ==
    LET named    == DropExtension(Strip(query))
        replaced == [i \in 1..Len(named) |->
                        IF IsPunctuation(named[i]) THEN " " ELSE named[i]]
        authored == IF author # << >> THEN replaced \o << " " >> \o author
                    ELSE replaced
    IN Strip(CollapseSpaces(authored))

\* C31: sanitize_query drops one trailing extension, turns punctuation and
\* nothing else into spaces, appends the author after one space and
\* collapses the runs of whitespace: letters, digits, apostrophes and
\* hyphens come out in their order.
C31_OnlyPunctuationReplaced ==
    (call.fn = "sanitize_query" /\ call.result.kind = "sanitized") =>
        call.result.text = DescribedQuery(call.arg.query, call.arg.author)

====
